---- MODULE Spec2Model ----
(***************************************************************************)
(* Uber-Clone backend, controllers/user.controller.js: the four request    *)
(* handlers registerUser, loginUser, getUserProfile and logoutUser over    *)
(* the User collection and the blacklisted-token collection.               *)
(*                                                                         *)
(* Every handler is an async function.  Between two awaits it runs without *)
(* interruption, so one action is the data-store (or library) operation an *)
(* await waits for, together with the synchronous code that follows it up  *)
(* to the next await or to the response.  Handlers of different requests   *)
(* interleave at their awaits.                                             *)
(***************************************************************************)
EXTENDS Naturals, Sequences, FiniteSets

\* ---------------------------------------------------------------- bounds
MaxReq == 3                  \* requests that arrive in one behaviour
NumProcs == 2                \* requests in flight at the same time

Procs == 1..NumProcs
Emails == {"a@x", "b@x"}
Passwords == {"p1", "p2"}       \* what a client submits at login
NewPasswords == {"p1"}           \* what a client chooses at registration
Fullnames == {"n1"}

VARIABLES
  users,       \* the User collection: a set of documents
  blacklist,   \* the BlacklistedToken collection: the set of stored tokens
  nextTok,     \* issuance counter of the token signer
  issued,      \* tokens handed to clients in a 200/201 response
  started,     \* number of requests that have arrived
  pc,          \* per request slot: the await the handler is suspended at
  req,         \* per request slot: the request (body, cookies, headers, user)
  loc,         \* per request slot: the handler's local variables
  resp,        \* per request slot: the responses sent, in order
  fault        \* per request slot: whether the call last awaited threw

vars == <<users, blacklist, nextTok, issued, started, pc, req, loc, resp, fault>>

\* ------------------------------------------------------------ data values
NoToken == << >>             \* undefined / empty string: falsy in `||` and `!token`
JunkToken == <<0, 0>>        \* a string no signer of this server produced
NoUser == << >>              \* null result of a query
NoHeader == << >>            \* request without an Authorization header

\* req.user.id of a profile request: a stored identifier, or one that is not
UserIds == 1..(Cardinality(users) + 1)

NoLoc == [user |-> NoUser, hashedPassword |-> "", token |-> NoToken]

\* a slot that holds no request
NoReq == [kind |-> "none"]

\* ----------------------------------------------- models, service, libraries
\* userModel.hashPassword: a one-way hash; never the plaintext
hashPassword(password) == "$2b$" \o password

\* user.comparePassword: whether the stored hash was made from `password`
comparePassword(user, password) == user.password = hashPassword(password)

\* user.generateAuthToken: a signed token naming the user, unique per issuance
generateAuthToken(user) == <<user.id, nextTok>>

\* userModel.exists({ email })
userExists(email) == \E u \in users : u.email = email

\* userModel.findOne({ email }).select("+password"): the matching documents,
\* password included; the store returns any one of them
findOne(email) == {u \in users : u.email = email}

\* the default projection of a User document: the password is not selected
PublicUser(u) == [id |-> u.id, fullname |-> u.fullname, email |-> u.email]

\* userModel.findById(id): default projection
findById(id) == {PublicUser(u) : u \in {v \in users : v.id = id}}

\* userService.createUser: the document inserted, with a fresh identifier
createUser(fullname, email, password) ==
  [id |-> Cardinality(users) + 1, fullname |-> fullname, email |-> email,
   password |-> password]

\* res.json of the document createUser returns: the password is not exposed
toJSON(u) == PublicUser(u)

\* blacklistedTokenModel.exists({ token })
isBlacklisted(token) == token \in blacklist

\* ---------------------------------------------------------------- responses
Response(status, message, token, user, cleared) ==
  [status |-> status, message |-> message, token |-> token, user |-> user,
   clearCookie |-> cleared]

Json(status, message) == Response(status, message, NoToken, NoUser, FALSE)

InternalError == Json(500, "Internal server error")

\* res.status(..).json(..) followed by the handler's return: the response is
\* sent and the handler's request and locals are gone
Send(p, r) ==
  /\ resp' = [resp EXCEPT ![p] = Append(@, r)]
  /\ pc' = [pc EXCEPT ![p] = "done"]
  /\ req' = [req EXCEPT ![p] = NoReq]
  /\ loc' = [loc EXCEPT ![p] = NoLoc]

\* the handler goes on to its next await
Await(p, label, locals) ==
  /\ pc' = [pc EXCEPT ![p] = label]
  /\ loc' = [loc EXCEPT ![p] = locals]
  /\ UNCHANGED <<req, resp>>

\* the catch block logs and returns without responding
Catch_Silent(p) ==
  /\ pc' = [pc EXCEPT ![p] = "done"]
  /\ req' = [req EXCEPT ![p] = NoReq]
  /\ loc' = [loc EXCEPT ![p] = NoLoc]
  /\ UNCHANGED resp

\* the catch block of a handler: log, then the generic 500
Catch(p) == Send(p, InternalError)

\* the awaited call of handler p settles: it returns, or it throws
Settles(p, throws) == fault' = [fault EXCEPT ![p] = throws]

Init ==
  /\ users = {}
  /\ blacklist = {}
  /\ nextTok = 1
  /\ issued = {}
  /\ started = 0
  /\ pc = [p \in Procs |-> "idle"]
  /\ req = [p \in Procs |-> NoReq]
  /\ loc = [p \in Procs |-> NoLoc]
  /\ resp = [p \in Procs |-> << >>]
  /\ fault = [p \in Procs |-> FALSE]

\* ---------------------------------------------------------------- requests
NoBody == [errors |-> TRUE, fullname |-> "n1", email |-> "a@x", password |-> "p1"]

\* a request body and what validationResult(req) says of it
Bodies(passwords) ==
  {NoBody} \cup
  [errors : {FALSE}, fullname : Fullnames, email : Emails, password : passwords]

\* the strings a client can put in a cookie or a header: nothing, a token the
\* server handed out, or a string of its own
ClientTokens == issued \cup {JunkToken}

\* the cookie `token` of a request: absent, or a token the server handed out
Cookies == {NoToken} \cup issued

\* an Authorization header as the list of its space-separated fields
Headers ==
  {NoHeader, <<"Bearer">>, <<"Basic", JunkToken>>} \cup
  {<<"Bearer", t>> : t \in ClientTokens}

Request(kind, body, cookie, authorization, uid) ==
  [kind |-> kind, errors |-> body.errors, fullname |-> body.fullname,
   email |-> body.email, password |-> body.password, cookie |-> cookie,
   authorization |-> authorization, uid |-> uid]

\* a request arrives and Express calls the handler in a free slot
Arrive(p) ==
  /\ pc[p] \in {"idle", "done"}
  /\ \A q \in Procs : q < p => pc[q] \notin {"idle", "done"}
  /\ started < MaxReq
  /\ started' = started + 1
  /\ fault' = [fault EXCEPT ![p] = FALSE]

\* the handler responds before its first await
EnterSend(p, r) ==
  /\ resp' = [resp EXCEPT ![p] = <<r>>]
  /\ pc' = [pc EXCEPT ![p] = "done"]
  /\ req' = [req EXCEPT ![p] = NoReq]
  /\ loc' = [loc EXCEPT ![p] = NoLoc]

\* the handler reaches its first await
EnterAwait(p, r, label, locals) ==
  /\ resp' = [resp EXCEPT ![p] = << >>]
  /\ pc' = [pc EXCEPT ![p] = label]
  /\ req' = [req EXCEPT ![p] = r]
  /\ loc' = [loc EXCEPT ![p] = locals]

\* ------------------------------------------------------------- registerUser
\* lines 14-19: validation, then the existence query is issued
RegEnter(p) ==
  \E b \in Bodies(NewPasswords) :
    /\ Arrive(p)
    /\ IF b.errors
         THEN EnterSend(p, Json(400, "errors"))
         ELSE EnterAwait(p, Request("register", b, NoToken, NoHeader, 0),
                         "reg_exists", NoLoc)
    /\ UNCHANGED <<users, blacklist, nextTok, issued>>

\* the existence query matches on another field, so it never finds the email
doesUserExist_WrongField(p) == userExists(req[p].fullname)

\* line 22: const doesUserExist = await userModel.exists({ email })
doesUserExist(p) == userExists(req[p].email)

\* lines 22-27: the existence check and its 400
RegExists(p) ==
  /\ pc[p] = "reg_exists"
  /\ \E throws \in BOOLEAN :
       /\ Settles(p, throws)
       /\ IF throws THEN Catch(p)
          ELSE IF doesUserExist(p)
            THEN Send(p, Json(400, "User with this email already exists"))
            ELSE Await(p, "reg_hash", loc[p])
  /\ UNCHANGED <<users, blacklist, nextTok, issued, started>>

\* line 29: const hashedPassword = await userModel.hashPassword(password)
RegHash(p) ==
  /\ pc[p] = "reg_hash"
  /\ \E throws \in BOOLEAN :
       /\ Settles(p, throws)
       /\ IF throws THEN Catch(p)
          ELSE Await(p, "reg_create",
                     [loc[p] EXCEPT !.hashedPassword = hashPassword(req[p].password)])
  /\ UNCHANGED <<users, blacklist, nextTok, issued, started>>

\* the submitted password is stored as it came
RegDocument_Plaintext(p) ==
  createUser(req[p].fullname, req[p].email, req[p].password)

\* lines 31-35: the document handed to userService.createUser
RegDocument(p) ==
  createUser(req[p].fullname, req[p].email, loc[p].hashedPassword)

\* lines 31-41: await userService.createUser(..), generateAuthToken, 201.
\* The insert can throw; so can the signer, after the insert has happened.
RegCreate(p) ==
  /\ pc[p] = "reg_create"
  /\ \E outcome \in {"ok", "createThrows", "tokenThrows"} :
       LET user == RegDocument(p)
           token == generateAuthToken(user)
       IN /\ Settles(p, outcome # "ok")
          /\ users' = IF outcome = "createThrows" THEN users ELSE users \cup {user}
          /\ IF outcome # "ok"
               THEN Catch(p) /\ UNCHANGED <<nextTok, issued>>
               ELSE /\ nextTok' = nextTok + 1
                    /\ issued' = issued \cup {token}
                    /\ Send(p, Response(201, "", token, <<toJSON(user)>>, FALSE))
  /\ UNCHANGED <<blacklist, started>>

registerUser(p) == RegEnter(p) \/ RegExists(p) \/ RegHash(p) \/ RegCreate(p)

\* ---------------------------------------------------------------- loginUser
\* lines 56-61: validation, then the lookup is issued
LoginEnter(p) ==
  \E b \in Bodies(Passwords), c \in Cookies :
    /\ Arrive(p)
    /\ IF b.errors
         THEN EnterSend(p, Json(400, "errors"))
         ELSE EnterAwait(p, Request("login", b, c, NoHeader, 0), "login_find", NoLoc)
    /\ UNCHANGED <<users, blacklist, nextTok, issued>>

\* lines 65-68: await userModel.findOne({ email }).select("+password")
LoginFind(p) ==
  /\ pc[p] = "login_find"
  /\ \E throws \in BOOLEAN :
       /\ Settles(p, throws)
       /\ IF throws THEN Catch(p)
          ELSE IF findOne(req[p].email) = {}
            THEN Send(p, Json(401, "Invalid email"))
            ELSE \E u \in findOne(req[p].email) :
                   Await(p, "login_compare", [loc[p] EXCEPT !.user = <<u>>])
  /\ UNCHANGED <<users, blacklist, nextTok, issued, started>>

\* the comparison is not awaited: a pending promise is truthy
isMatch_NotAwaited(p) == TRUE

\* line 71: const isMatch = await user.comparePassword(password)
isMatch(p) == comparePassword(loc[p].user[1], req[p].password)

\* lines 71-77: the password check and its 401, then generateAuthToken
LoginCompare(p) ==
  /\ pc[p] = "login_compare"
  /\ \E outcome \in {"ok", "compareThrows", "tokenThrows"} :
       /\ Settles(p, outcome # "ok")
       /\ IF outcome # "ok" THEN Catch(p) /\ UNCHANGED nextTok
          ELSE IF ~isMatch(p)
            THEN Send(p, Json(401, "Invalid password")) /\ UNCHANGED nextTok
            ELSE /\ Await(p, "login_blacklist",
                          [loc[p] EXCEPT !.token = generateAuthToken(loc[p].user[1])])
                 /\ nextTok' = nextTok + 1
  /\ UNCHANGED <<users, blacklist, issued, started>>

\* the blacklist is asked about the token the client sent
LoginCheckedToken_Submitted(p) == req[p].cookie

\* line 79: the token looked up in the blacklist is the one just generated
LoginCheckedToken(p) == loc[p].token

\* the client is handed back the token it sent
LoginReturnedToken_Submitted(p) == req[p].cookie

\* line 87: the token returned is the one just generated and checked
LoginReturnedToken(p) == loc[p].token

\* the blacklist query is a create instead of an exists
LoginBlacklist_Creates(p) ==
  /\ pc[p] = "login_blacklist"
  /\ \E throws \in BOOLEAN :
       /\ Settles(p, throws)
       /\ IF throws THEN Catch(p) /\ UNCHANGED <<issued, blacklist>>
          ELSE /\ blacklist' = blacklist \cup {loc[p].token}
               /\ Send(p, Json(401, "Token is blacklisted, please login again"))
               /\ UNCHANGED issued
  /\ UNCHANGED <<users, nextTok, started>>

\* lines 79-87: await blacklistedTokenModel.exists({ token }), 401 or 200
LoginBlacklist(p) ==
  /\ pc[p] = "login_blacklist"
  /\ \E throws \in BOOLEAN :
       /\ Settles(p, throws)
       /\ IF throws THEN Catch(p) /\ UNCHANGED issued
          ELSE IF isBlacklisted(LoginCheckedToken(p))
            THEN /\ Send(p, Json(401, "Token is blacklisted, please login again"))
                 /\ UNCHANGED issued
            ELSE /\ Send(p, Response(200, "", LoginReturnedToken(p), loc[p].user, FALSE))
                 /\ issued' = issued \cup {LoginReturnedToken(p)}
  /\ UNCHANGED <<users, blacklist, nextTok, started>>

loginUser(p) == LoginEnter(p) \/ LoginFind(p) \/ LoginCompare(p) \/ LoginBlacklist(p)

\* ----------------------------------------------------------- getUserProfile
\* line 101: the handler is called with req.user set by the auth middleware
ProfileEnter(p) ==
  \E id \in UserIds :
    /\ Arrive(p)
    /\ EnterAwait(p, Request("profile", NoBody, NoToken, NoHeader, id),
                  "profile_find", NoLoc)
    /\ UNCHANGED <<users, blacklist, nextTok, issued>>

\* the lookup has no filter: any stored user answers
ProfileUser_NoFilter(p) == {PublicUser(u) : u \in users}

\* line 101: const user = await userModel.findById(req.user.id)
ProfileUser(p) == findById(req[p].uid)

\* lines 101-105: the lookup, 404 or 200
ProfileFind(p) ==
  /\ pc[p] = "profile_find"
  /\ \E throws \in BOOLEAN :
       /\ Settles(p, throws)
       /\ IF throws THEN Catch(p)
          ELSE IF ProfileUser(p) = {}
            THEN Send(p, Json(404, "User not found"))
            ELSE \E u \in ProfileUser(p) :
                   Send(p, Response(200, "", NoToken, <<u>>, FALSE))
  /\ UNCHANGED <<users, blacklist, nextTok, issued, started>>

getUserProfile(p) == ProfileEnter(p) \/ ProfileFind(p)

\* --------------------------------------------------------------- logoutUser
\* req.headers.authorization?.split(" ")[1]: the second field, if any,
\* whatever the first field is
HeaderToken(authorization) ==
  IF Len(authorization) >= 2 THEN authorization[2] ELSE NoToken

\* line 120: req.cookies.token || req.headers.authorization?.split(" ")[1]
LogoutToken(r) ==
  IF r.cookie # NoToken THEN r.cookie ELSE HeaderToken(r.authorization)

\* lines 120-123: the token is taken from the request; 401 without one
LogoutEnter(p) ==
  \E c \in Cookies, h \in Headers :
    LET r == Request("logout", NoBody, c, h, 0)
    IN /\ Arrive(p)
       /\ IF LogoutToken(r) = NoToken
            THEN EnterSend(p, Json(401, "Unauthorised"))
            ELSE EnterAwait(p, r, "logout_create",
                            [NoLoc EXCEPT !.token = LogoutToken(r)])
       /\ UNCHANGED <<users, blacklist, nextTok, issued>>

\* lines 125-130: await blacklistedTokenModel.create({ token }), clearCookie, 200
LogoutCreate(p) ==
  /\ pc[p] = "logout_create"
  /\ \E throws \in BOOLEAN :
       /\ Settles(p, throws)
       /\ IF throws THEN Catch(p) /\ UNCHANGED blacklist
          ELSE /\ blacklist' = blacklist \cup {loc[p].token}
               /\ Send(p, Response(200, "User logged out successfully", NoToken,
                                   NoUser, TRUE))
  /\ UNCHANGED <<users, nextTok, issued, started>>

logoutUser(p) == LogoutEnter(p) \/ LogoutCreate(p)

\* ------------------------------------------------------------ specification
\* a handler resumes after an await
Resume(p) ==
  \/ RegExists(p) \/ RegHash(p) \/ RegCreate(p)
  \/ LoginFind(p) \/ LoginCompare(p) \/ LoginBlacklist(p)
  \/ ProfileFind(p)
  \/ LogoutCreate(p)

Next ==
  \E p \in Procs :
    \/ RegEnter(p) \/ RegExists(p) \/ RegHash(p) \/ RegCreate(p)
    \/ LoginEnter(p) \/ LoginFind(p) \/ LoginCompare(p) \/ LoginBlacklist(p)
    \/ ProfileEnter(p) \/ ProfileFind(p)
    \/ LogoutEnter(p) \/ LogoutCreate(p)

Spec == Init /\ [][Next]_vars

\* every await settles: the event loop resumes a suspended handler
FairSpec == Spec /\ \A p \in Procs : WF_vars(Resume(p))

\* ------------------------------------------------------------------ claims
\* handler p resumes from the await `label` in this step
Resumes(p, label) == pc[p] = label /\ pc'[p] # label

\* a request arrives in this step
Arrives == started' # started

Sequential == \A q \in Procs : q # 1 => pc[q] = "idle"

IsLogin200(r) == r.status = 200 /\ r.token # NoToken

IsProfile200(r) ==
  r.status = 200 /\ r.token = NoToken /\ r.user # NoUser /\ ~r.clearCookie

\* C1: when registerUser's existence check runs for an email that a stored
\* User already has, the handler responds 400 (500 if the query itself
\* throws), the User collection is left as it was and no token is issued.
C1_DuplicateEmailRejected ==
  [][\A p \in Procs :
       (Resumes(p, "reg_exists") /\ userExists(req[p].email)) =>
         /\ pc'[p] = "done"
         /\ Len(resp'[p]) = 1
         /\ resp'[p][1].token = NoToken
         /\ ~fault'[p] =>
              resp'[p] = <<Json(400, "User with this email already exists")>>
         /\ users' = users
         /\ issued' = issued
         /\ nextTok' = nextTok]_vars

C1_Witness ==
  \E p \in Procs :
    resp[p] = <<Json(400, "User with this email already exists")>>

C3_UniqueEmail == \A u, v \in users : u.email = v.email => u = v

\* C4: loginUser responds 401 without a token when the lookup finds no User
\* with the submitted email, and 401 without a token when the User is found
\* and the submitted password does not match the stored hash; the password
\* is compared only after the lookup has found a User with that email.
C4_LoginRejects ==
  [][\A p \in Procs :
       /\ (Resumes(p, "login_find") /\ ~fault'[p] /\ findOne(req[p].email) = {}) =>
            /\ pc'[p] = "done"
            /\ resp'[p] = <<Json(401, "Invalid email")>>
            /\ issued' = issued /\ nextTok' = nextTok
       /\ (Resumes(p, "login_compare") /\ ~fault'[p]
             /\ ~comparePassword(loc[p].user[1], req[p].password)) =>
            /\ pc'[p] = "done"
            /\ resp'[p] = <<Json(401, "Invalid password")>>
            /\ issued' = issued /\ nextTok' = nextTok
       /\ (pc'[p] = "login_compare" /\ pc[p] # "login_compare") =>
            /\ pc[p] = "login_find"
            /\ Len(loc'[p].user) = 1
            /\ loc'[p].user[1] \in findOne(req[p].email)]_vars

C4_Witness ==
  \E p, q \in Procs :
    /\ resp[p] = <<Json(401, "Invalid email")>>
    /\ resp[q] = <<Json(401, "Invalid password")>>

\* the token of a bearer Authorization header, if the header is one
BearerToken(authorization) ==
  IF Len(authorization) >= 2 /\ authorization[1] = "Bearer"
    THEN authorization[2] ELSE NoToken

\* the token the claim names: the cookie's when present, else the bearer header's
ClaimedToken(r) ==
  IF r.cookie # NoToken THEN r.cookie ELSE BearerToken(r.authorization)

\* C5: logoutUser responds 401 and leaves the blacklist unchanged when neither
\* the token cookie nor a bearer Authorization header carries a token;
\* otherwise it inserts exactly the cookie's token when present, else the
\* bearer header's, clears the cookie and responds 200.
C5_LogoutAsClaimed ==
  [][\A p \in Procs :
       /\ (pc'[p] = "logout_create" /\ pc[p] # "logout_create") =>
            ClaimedToken(req'[p]) # NoToken /\ blacklist' = blacklist
       /\ (Resumes(p, "logout_create") /\ ~fault'[p]) =>
            /\ blacklist' = blacklist \cup {ClaimedToken(req[p])}
            /\ resp'[p] = <<Response(200, "User logged out successfully",
                                     NoToken, NoUser, TRUE)>>
       /\ (Len(resp'[p]) = 1 /\ resp'[p][1].status = 401) =>
            blacklist' = blacklist]_vars

C7_Profile ==
  [][\A p \in Procs :
       /\ (pc'[p] = "profile_find" /\ pc[p] # "profile_find") =>
            users' = users /\ blacklist' = blacklist
       /\ Resumes(p, "profile_find") =>
            /\ users' = users /\ blacklist' = blacklist
            /\ pc'[p] = "done"
            /\ Len(resp'[p]) = 1
            /\ ~fault'[p] =>
                 IF \A u \in users : u.id # req[p].uid
                   THEN resp'[p] = <<Json(404, "User not found")>>
                   ELSE /\ IsProfile200(resp'[p][1])
                        /\ Len(resp'[p][1].user) = 1
                        /\ resp'[p][1].user[1].id = req[p].uid
                        /\ \E u \in users : resp'[p][1].user[1] = PublicUser(u)]_vars

C7_Witness ==
  \E p, q \in Procs :
    /\ resp[p] = <<Json(404, "User not found")>>
    /\ Len(resp[q]) = 1
    /\ IsProfile200(resp[q][1])

\* C8: the blacklist check of loginUser never hits: a loginUser request with
\* a valid body, a stored email and the matching password reaches the check
\* with a token that is not in the blacklist and, when no awaited call
\* throws, gets 200 with that token and the user, never 401, also after
\* earlier tokens of the same user were blacklisted.
C8_LoginCheckAlwaysMisses ==
  [][\A p \in Procs :
       /\ (Resumes(p, "login_find") /\ ~fault'[p] /\ findOne(req[p].email) # {}) =>
            pc'[p] = "login_compare" /\ resp'[p] = << >>
       /\ (Resumes(p, "login_compare") /\ ~fault'[p]
             /\ comparePassword(loc[p].user[1], req[p].password)) =>
            pc'[p] = "login_blacklist" /\ resp'[p] = << >>
       /\ Resumes(p, "login_blacklist") =>
            /\ ~isBlacklisted(loc[p].token)
            /\ Len(resp'[p]) = 1
            /\ resp'[p][1].status # 401
            /\ ~fault'[p] =>
                 resp'[p] = <<Response(200, "", loc[p].token, loc[p].user, FALSE)>>
            /\ ~fault'[p] => loc[p].token # NoToken]_vars

C8_Witness ==
  /\ Sequential
  /\ Len(resp[1]) = 1
  /\ IsLogin200(resp[1][1])
  /\ \E b \in blacklist : b # resp[1][1].token /\ b[1] = resp[1][1].token[1]

Statuses == {200, 201, 400, 401, 404, 500}

InFlight(p) == pc[p] \notin {"idle", "done"}

\* the awaits of a handler, in the order the handler reaches them
Rank(label) ==
  CASE label \in {"reg_exists", "login_find", "profile_find", "logout_create"} -> 1
    [] label \in {"reg_hash", "login_compare"} -> 2
    [] label \in {"reg_create", "login_blacklist"} -> 3
    [] OTHER -> 4

C9_OneResponse ==
  \A p \in Procs :
    /\ Len(resp[p]) <= 1
    /\ pc[p] = "done" => Len(resp[p]) = 1 /\ resp[p][1].status \in Statuses
    /\ pc[p] # "done" => resp[p] = << >>
    /\ fault[p] => pc[p] = "done" /\ resp[p] = <<InternalError>>

C9_NoRetry ==
  \A p \in Procs :
    (InFlight(p) /\ pc'[p] # pc[p]) => Rank(pc'[p]) > Rank(pc[p])

\* C9: every request ends with exactly one response, whose status is one of
\* 200, 201, 400, 401, 404, 500; when an awaited call throws the response is
\* the generic 500; no handler goes back to an await it has passed, and a
\* handler that has not responded yet eventually does.
C9_ExactlyOneResponse ==
  /\ []C9_OneResponse
  /\ [][C9_NoRetry]_vars
  /\ \A p \in Procs : InFlight(p) ~> (pc[p] = "done")

C9_Witness ==
  \E p, q \in Procs :
    /\ fault[p] /\ resp[p] = <<InternalError>>
    /\ ~fault[q] /\ Len(resp[q]) = 1 /\ resp[q][1].status = 201

RegLabels == {"reg_exists", "reg_hash", "reg_create"}
LoginLabels == {"login_find", "login_compare", "login_blacklist"}
ProfileLabels == {"profile_find"}
LogoutLabels == {"logout_create"}

\* C10: loginUser, getUserProfile and logoutUser leave the User collection
\* unchanged; registerUser, loginUser and getUserProfile leave the blacklist
\* unchanged; no step removes a User record.
C10_Frame ==
  [][/\ users \subseteq users'
     /\ Arrives => users' = users /\ blacklist' = blacklist
     /\ \A p \in Procs :
          /\ (pc[p] \in LoginLabels \cup ProfileLabels \cup LogoutLabels
                /\ pc'[p] # pc[p]) => users' = users
          /\ (pc[p] \in RegLabels \cup LoginLabels \cup ProfileLabels
                /\ pc'[p] # pc[p]) => blacklist' = blacklist]_vars

C10_Witness ==
  /\ Cardinality(users) >= 2
  /\ blacklist # {}
  /\ \E p \in Procs : Len(resp[p]) = 1 /\ resp[p][1].clearCookie

====
